---------------------------- MODULE Spec2Model ----------------------------
(***************************************************************************)
(* CardanoKeyConverter (src/src/CardanoKeyConverter.ts): the key file      *)
(* reader, the CBOR-hex to Bech32 key encoder and their orchestration.     *)
(*                                                                         *)
(* A JavaScript string is a sequence of one-character strings.  A          *)
(* JavaScript value is a record [t, s, fields]: t its type, s its text (a  *)
(* string's characters, a number's lexeme), fields an object's members as  *)
(* a sequence of <<key, value>>.  An Error is the sequence of the parts    *)
(* its message is built from, outermost prefix first.                      *)
(***************************************************************************)
EXTENDS Integers, Sequences, FiniteSets, TLC

-----------------------------------------------------------------------------
(* Characters and the String methods the code uses *)

Digits == {"0", "1", "2", "3", "4", "5", "6", "7", "8", "9"}

HexLower == <<"0", "1", "2", "3", "4", "5", "6", "7", "8", "9",
              "a", "b", "c", "d", "e", "f">>

HexUpper == <<"0", "1", "2", "3", "4", "5", "6", "7", "8", "9",
              "A", "B", "C", "D", "E", "F">>

\* The characters /[0-9a-fA-F]/ matches, which are also those Buffer's hex
\* decoder accepts.
HexDigits == {HexLower[i] : i \in 1..16} \cup {HexUpper[i] : i \in 1..16}

HexVal(c) == CHOOSE v \in 0..15 : HexLower[v + 1] = c \/ HexUpper[v + 1] = c

\* White space String.prototype.trim removes: JSON's (space, tab, line feed,
\* carriage return) and more, of which the form feed stands here.
TrimSpace == {" ", "\t", "\n", "\r", "\f"}

\* White space JSON.parse skips around a token.
JsonSpace == {" ", "\t", "\n", "\r"}

Rep(c, n) == [i \in 1..n |-> c]

\* s.slice(n): s without its first n characters.
Slice(s, n) == SubSeq(s, n + 1, Len(s))

\* s.startsWith(p)
StartsWith(s, p) == Len(s) >= Len(p) /\ SubSeq(s, 1, Len(p)) = p

\* The least and the greatest of a non-empty set of indices
Min(set) == CHOOSE i \in set : \A j \in set : i <= j
Max(set) == CHOOSE i \in set : \A j \in set : j <= i

\* s from the first to the last of the indices in keep
Between(s, keep) == IF keep = {} THEN <<>> ELSE SubSeq(s, Min(keep), Max(keep))

\* s.trim()
Trim(s) == Between(s, {i \in 1..Len(s) : s[i] \notin TrimSpace})

\* isValidHex: /^[0-9a-fA-F]+$/.test(hex) && hex.length % 2 === 0
isValidHexOddToo(hex) ==
  Len(hex) > 0 /\ \A i \in 1..Len(hex) : hex[i] \in HexDigits

isValidHex(hex) ==
  /\ Len(hex) > 0
  /\ \A i \in 1..Len(hex) : hex[i] \in HexDigits
  /\ Len(hex) % 2 = 0

-----------------------------------------------------------------------------
(* Buffer.from(rawHex, "hex") and the bech32 package's toWords and encode *)

\* The first n bytes of the hex string h
HexBytes(h, n) == [i \in 1..n |-> 16 * HexVal(h[2*i - 1]) + HexVal(h[2*i])]

\* The pairs of h before the first of the pairs in bad
GoodPairs(h, bad) == IF bad = {} THEN Len(h) \div 2 ELSE Min(bad) - 1

\* Buffer.from(h, "hex"): one byte per pair of hex digits, stopping before the
\* first pair that holds a character that is no hex digit (and dropping an odd
\* last character): it never throws.
BufferFromHex(h) ==
  HexBytes(h, GoodPairs(h, {i \in 1..(Len(h) \div 2) :
                              h[2*i - 1] \notin HexDigits \/ h[2*i] \notin HexDigits}))

\* bech32.toWords(bytes): convert(bytes, 8, 5, true), the bytes' bits taken
\* five at a time, most significant first, the last group padded with zeros.
BitAt(bytes, k) ==
  IF k < 8 * Len(bytes) THEN (bytes[(k \div 8) + 1] \div (2 ^ (7 - (k % 8)))) % 2 ELSE 0

toWords(bytes) ==
  [w \in 1..((8 * Len(bytes) + 4) \div 5) |->
     16 * BitAt(bytes, 5*(w-1)) + 8 * BitAt(bytes, 5*(w-1) + 1)
       + 4 * BitAt(bytes, 5*(w-1) + 2) + 2 * BitAt(bytes, 5*(w-1) + 3)
       + BitAt(bytes, 5*(w-1) + 4)]

\* bech32's ALPHABET
Alphabet == <<"q", "p", "z", "r", "y", "9", "x", "8", "g", "f", "2", "t", "v",
              "d", "w", "0", "s", "3", "j", "n", "5", "4", "k", "h", "c", "e",
              "6", "m", "u", "a", "7", "l">>

RECURSIVE XorBits(_, _)
\* a ^ b on non-negative integers, bit by bit
XorBits(a, b) ==
  IF a = 0 THEN b
  ELSE IF b = 0 THEN a
  ELSE ((a + b) % 2) + 2 * XorBits(a \div 2, b \div 2)

\* a ^ b for a, b < 32
Xor5 == [a \in 0..31 |-> [b \in 0..31 |-> XorBits(a, b)]]

RECURSIVE Xor(_, _)
\* a ^ b on non-negative integers, five bits at a time
Xor(a, b) ==
  IF a = 0 THEN b
  ELSE IF b = 0 THEN a
  ELSE Xor5[a % 32][b % 32] + 32 * Xor(a \div 32, b \div 32)

\* bech32's generator constants 0x3b6a57b2, 0x26508e6d, 0x1ea119fa,
\* 0x3d4233dd, 0x2a1462b3
Generators == <<996825010, 642813549, 513874426, 1027748829, 705979059>>

\* The generator of bit i of b: -((b >> i) & 1) & GENERATOR[i]
GeneratorOf(b, i) == IF (b \div (2 ^ i)) % 2 = 1 THEN Generators[i + 1] ELSE 0

\* For the five bits b shifted out of the register, the generators of b's one
\* bits, xor-ed
GeneratorsFor ==
  [b \in 0..31 |->
     Xor(Xor(Xor(Xor(GeneratorOf(b, 0), GeneratorOf(b, 1)), GeneratorOf(b, 2)),
             GeneratorOf(b, 3)), GeneratorOf(b, 4))]

\* polymodStep(pre): the low 25 bits shifted up by five, and one generator
\* for each of the five bits shifted out
polymodStep(pre) ==
  Xor((pre % 33554432) * 32, GeneratorsFor[pre \div 33554432])

RECURSIVE PolymodOver(_, _, _, _)
\* chk = polymodStep(chk) ^ v for each v of vals[from..to] in turn: the first
\* half of the steps, then the second half from where the first ended (the
\* register is never negative: the test has it computed before the steps)
PolymodOver(chk, vals, from, to) ==
  IF chk < 0 \/ from > to THEN chk
  ELSE IF from = to THEN Xor(polymodStep(chk), vals[from])
  ELSE PolymodOver(PolymodOver(chk, vals, from, (from + to) \div 2),
                   vals, ((from + to) \div 2) + 1, to)

Polymod(chk, vals) == PolymodOver(chk, vals, 1, Len(vals))

\* The character codes of the prefixes encode is given here.
CharCode(c) ==
  CASE c = "e" -> 101 [] c = "d" -> 100 [] c = "2" -> 50 [] c = "5" -> 53
    [] c = "1" -> 49 [] c = "9" -> 57 [] c = "_" -> 95 [] c = "s" -> 115
    [] c = "k" -> 107 [] c = "a" -> 97

\* prefixChk(prefix): the register after the prefix's high bits, a zero and its
\* low bits
prefixChk(prefix) ==
  Polymod(1, [i \in 1..Len(prefix) |-> CharCode(prefix[i]) \div 32]
             \o <<0>>
             \o [i \in 1..Len(prefix) |-> CharCode(prefix[i]) % 32])

\* prefix, "1", one character per word, and the six characters of the
\* checksum chk: (chk >> 5 * (5 - i)) & 31 for i = 0..5
Assemble(prefix, words, chk) ==
  prefix \o <<"1">>
    \o [i \in 1..Len(words) |-> Alphabet[words[i] + 1]]
    \o [i \in 1..6 |-> Alphabet[((chk \div (32 ^ (6 - i))) % 32) + 1]]

\* bech32.encode(prefix, words), within its length limit: the checksum is the
\* register after the prefix, the words and six zeros, its lowest bit flipped
encode(prefix, words) ==
  Assemble(prefix, words,
           Xor(Polymod(prefixChk(prefix), words \o <<0, 0, 0, 0, 0, 0>>), 1))

-----------------------------------------------------------------------------
(* JavaScript values, and JSON.parse *)

JsString(chars) == [t |-> "string", s |-> chars, fields |-> <<>>]
JsNumber(lexeme) == [t |-> "number", s |-> lexeme, fields |-> <<>>]
JsBoolean(lexeme) == [t |-> "boolean", s |-> lexeme, fields |-> <<>>]
JsNull == [t |-> "null", s |-> <<>>, fields |-> <<>>]
JsUndefined == [t |-> "undefined", s |-> <<>>, fields |-> <<>>]
\* An object's members, a sequence of <<key, value>> in the order parsed
JsObject(members) == [t |-> "object", s |-> <<>>, fields |-> members]
\* An array's elements, each <<empty key, value>>
JsArray(elements) == [t |-> "array", s |-> <<>>, fields |-> elements]

\* The end of a number's mantissa: where its exponent starts, if it has one
MantissaEnd(lexeme, es) == IF es = {} THEN Len(lexeme) ELSE Min(es) - 1

\* A number is zero when its mantissa has no digit but 0 (the exponents drawn
\* here are too small to underflow to zero).
IsZero(lexeme) ==
  \A i \in 1..MantissaEnd(lexeme, {j \in 1..Len(lexeme) : lexeme[j] \in {"e", "E"}}) :
    lexeme[i] \notin (Digits \ {"0"})

\* JavaScript's truthiness: false for "", 0, null, undefined and false
Truthy(v) ==
  CASE v.t = "string"  -> Len(v.s) > 0
    [] v.t = "number"  -> ~IsZero(v.s)
    [] v.t = "boolean" -> v.s = <<"t", "r", "u", "e">>
    [] v.t \in {"null", "undefined"} -> FALSE
    [] OTHER -> TRUE

\* The value of the last of the members hits of v, undefined when there is none
LastOf(v, hits) == IF hits = {} THEN JsUndefined ELSE v.fields[Max(hits)][2]

\* v.name for a value that is not null: the object's last member of that name,
\* undefined when it has none or v is no object
GetProp(v, name) ==
  IF v.t # "object" THEN JsUndefined
  ELSE LastOf(v, {i \in 1..Len(v.fields) : v.fields[i][1] = name})

\* What a parse step gives: whether it succeeded, the value, and the index of
\* the first character after it
Parsed(v, next) == [ok |-> TRUE, v |-> v, next |-> next]
ParseFail == [ok |-> FALSE, v |-> JsUndefined, next |-> 0]

\* The first index from i on that holds no character of set (Len(s) + 1 when
\* there is none)
SkipWhile(s, i, set) ==
  CHOOSE j \in i..(Len(s) + 1) :
    /\ j = Len(s) + 1 \/ s[j] \notin set
    /\ \A k \in i..(j - 1) : s[k] \in set

At(s, i) == IF i >= 1 /\ i <= Len(s) THEN s[i] ELSE ""

\* The characters that may follow a backslash in a JSON string, and what each
\* stands for (\u does not occur in the contents drawn here)
\* The backspace character, which TLA+ strings cannot spell
Backspace == "<BS>"

Escapes == {"\"", "\\", "/", "b", "f", "n", "r", "t"}
Unescape(c) ==
  CASE c = "n" -> "\n" [] c = "t" -> "\t" [] c = "r" -> "\r" [] c = "f" -> "\f"
    [] c = "b" -> Backspace [] OTHER -> c

\* The characters a JSON string may not hold unescaped
ControlChars == {"\n", "\t", "\r", "\f", Backspace}

RECURSIVE BackslashesBefore(_, _, _)
\* How many backslashes stand in a row right before index i, from index lo on
BackslashesBefore(s, i, lo) ==
  IF i > lo /\ s[i - 1] = "\\" THEN 1 + BackslashesBefore(s, i - 1, lo) ELSE 0

\* The quotes from index j on that no backslash escapes
Quotes(s, j) ==
  {i \in j..Len(s) : s[i] = "\"" /\ BackslashesBefore(s, i, j) % 2 = 0}

\* The characters j..end-1 have no control character, and every backslash
\* that starts an escape is followed by a character an escape may name
BodyOk(s, j, end) ==
  \A i \in j..(end - 1) :
    /\ s[i] \notin ControlChars
    /\ (s[i] = "\\" /\ BackslashesBefore(s, i, j) % 2 = 0) => s[i + 1] \in Escapes

\* The first of these quotes closes the string, or 0 when what stands before
\* it is no string's characters
ClosedAt(s, j, quotes) ==
  IF quotes # {} /\ BodyOk(s, j, Min(quotes)) THEN Min(quotes) ELSE 0

\* The index of the quote that closes the JSON string whose characters start
\* at index j, or 0 when the text ends first, or has a control character or a
\* wrong escape before it
StringEnd(s, j) == ClosedAt(s, j, Quotes(s, j))

\* What the character at index i of a string that starts at lo stands for: a
\* backslash that starts an escape gives nothing, the character after it
\* gives the character the escape names, any other gives itself
CharAt(s, i, lo) ==
  IF BackslashesBefore(s, i, lo) % 2 = 1 THEN <<Unescape(s[i])>>
  ELSE IF s[i] = "\\" THEN <<>>
  ELSE <<s[i]>>

RECURSIVE Unescaped(_, _, _, _)
\* The characters that indices from..to stand for, in a string that starts at lo
Unescaped(s, from, to, lo) ==
  IF from > to THEN <<>>
  ELSE IF from = to THEN CharAt(s, from, lo)
  ELSE Unescaped(s, from, (from + to) \div 2, lo)
         \o Unescaped(s, ((from + to) \div 2) + 1, to, lo)

\* The JSON string closed at index end
StringUpTo(s, j, end) ==
  IF end = 0 THEN ParseFail ELSE Parsed(JsString(Unescaped(s, j, end - 1, j)), end + 1)

\* The JSON string whose characters start at index j
ParseChars(s, j) == StringUpTo(s, j, StringEnd(s, j))

\* A JSON number at index i: -? (0 | [1-9][0-9]*) (. [0-9]+)? ([eE] [+-]? [0-9]+)?
\* Each part is given where the part before it ended.
NumberExponent(s, i, exp, digits) ==
  IF At(s, exp) \in {"e", "E"} /\ At(s, digits) \in Digits
    THEN Parsed(JsNumber(SubSeq(s, i, SkipWhile(s, digits, Digits) - 1)),
                SkipWhile(s, digits, Digits))
    ELSE Parsed(JsNumber(SubSeq(s, i, exp - 1)), exp)

NumberFraction(s, i, frac) ==
  IF At(s, frac) = "." /\ At(s, frac + 1) \in Digits
    THEN NumberExponent(s, i, SkipWhile(s, frac + 1, Digits),
           IF At(s, SkipWhile(s, frac + 1, Digits) + 1) \in {"+", "-"}
             THEN SkipWhile(s, frac + 1, Digits) + 2
             ELSE SkipWhile(s, frac + 1, Digits) + 1)
    ELSE NumberExponent(s, i, frac,
           IF At(s, frac + 1) \in {"+", "-"} THEN frac + 2 ELSE frac + 1)

NumberInteger(s, i, int) ==
  IF At(s, int) = "0" THEN NumberFraction(s, i, int + 1)
  ELSE IF At(s, int) \in Digits THEN NumberFraction(s, i, SkipWhile(s, int, Digits))
  ELSE ParseFail

ParseNumber(s, i) == NumberInteger(s, i, IF At(s, i) = "-" THEN i + 1 ELSE i)

ParseLiteral(s, i, word, v) ==
  IF i + Len(word) - 1 <= Len(s) /\ SubSeq(s, i, i + Len(word) - 1) = word
    THEN Parsed(v, i + Len(word)) ELSE ParseFail

RECURSIVE ParseValue(_, _)
RECURSIVE ParseElements(_, _, _)
RECURSIVE ParseMembers(_, _, _)

\* After an element e of an array: ] ends it, a comma brings the next
AfterElement(s, e, j, acc) ==
  IF ~e.ok THEN ParseFail
  ELSE IF At(s, j) = "]" THEN Parsed(JsArray(Append(acc, <<<<>>, e.v>>)), j + 1)
  ELSE IF At(s, j) = "," THEN ParseElements(s, j + 1, Append(acc, <<<<>>, e.v>>))
  ELSE ParseFail

ThenElement(s, e, acc) == AfterElement(s, e, SkipWhile(s, e.next, JsonSpace), acc)

\* An array's elements from index i on: value (, value)* ]
ParseElements(s, i, acc) == ThenElement(s, ParseValue(s, i), acc)

\* After a member k : e of an object: } ends it, a comma brings the next
AfterMember(s, k, e, j, acc) ==
  IF ~e.ok THEN ParseFail
  ELSE IF At(s, j) = "}" THEN Parsed(JsObject(Append(acc, <<k.v.s, e.v>>)), j + 1)
  ELSE IF At(s, j) = "," THEN ParseMembers(s, j + 1, Append(acc, <<k.v.s, e.v>>))
  ELSE ParseFail

ThenMember(s, k, e, acc) == AfterMember(s, k, e, SkipWhile(s, e.next, JsonSpace), acc)

\* After a member's name k: the colon at index c, and the value
MemberValue(s, k, c, acc) ==
  IF k.ok /\ At(s, c) = ":" THEN ThenMember(s, k, ParseValue(s, c + 1), acc)
  ELSE ParseFail

MemberName(s, k, acc) == MemberValue(s, k, SkipWhile(s, k.next, JsonSpace), acc)

MemberAt(s, i, acc) ==
  IF At(s, i) = "\"" THEN MemberName(s, ParseChars(s, i + 1), acc)
  ELSE ParseFail

\* An object's members from index i on: string : value (, string : value)* }
ParseMembers(s, i, acc) == MemberAt(s, SkipWhile(s, i, JsonSpace), acc)

\* After {, at the first index j that holds no white space
ObjectAt(s, j) ==
  IF At(s, j) = "}" THEN Parsed(JsObject(<<>>), j + 1) ELSE ParseMembers(s, j, <<>>)

\* After [, at the first index j that holds no white space
ArrayAt(s, j) ==
  IF At(s, j) = "]" THEN Parsed(JsArray(<<>>), j + 1) ELSE ParseElements(s, j, <<>>)

\* A JSON value that starts at index i with the character c
ValueAt(s, i, c) ==
  CASE c = "\"" -> ParseChars(s, i + 1)
    [] c = "{" -> ObjectAt(s, SkipWhile(s, i + 1, JsonSpace))
    [] c = "[" -> ArrayAt(s, SkipWhile(s, i + 1, JsonSpace))
    [] c = "t" -> ParseLiteral(s, i, <<"t", "r", "u", "e">>, JsBoolean(<<"t", "r", "u", "e">>))
    [] c = "f" -> ParseLiteral(s, i, <<"f", "a", "l", "s", "e">>, JsBoolean(<<"f", "a", "l", "s", "e">>))
    [] c = "n" -> ParseLiteral(s, i, <<"n", "u", "l", "l">>, JsNull)
    [] c = "-" \/ c \in Digits -> ParseNumber(s, i)
    [] OTHER -> ParseFail

ValueFrom(s, i) == ValueAt(s, i, At(s, i))

\* A JSON value from index i on, white space before it skipped
ParseValue(s, i) == ValueFrom(s, SkipWhile(s, i, JsonSpace))

\* The value r, when nothing but white space follows it
Whole(text, r) ==
  IF r.ok /\ SkipWhile(text, r.next, JsonSpace) = Len(text) + 1 THEN r ELSE ParseFail

\* JSON.parse(text): one value with nothing but white space around it; a
\* failure stands for the SyntaxError it throws
JsonParse(text) == Whole(text, ParseValue(text, 1))

-----------------------------------------------------------------------------
(* What a call gives: a value returned, or an Error thrown *)

Return(v) == [ok |-> TRUE, value |-> v, error |-> <<>>]
Throw(message) == [ok |-> FALSE, value |-> JsUndefined, error |-> message]
\* No outcome yet
Pending == [ok |-> FALSE, value |-> JsUndefined, error |-> <<>>]

\* catch (error) { throw new Error(`${prefix}${error.message}`) }
Rethrow(prefix, r) == IF r.ok THEN r ELSE Throw(<<prefix>> \o r.error)

-----------------------------------------------------------------------------
(* The file system: each path's file *)

\* A file that exists and reads as content
File(content) == [exists |-> TRUE, readError |-> "", content |-> content]
\* A path existsSync finds nothing at
MissingFile == [exists |-> FALSE, readError |-> "", content |-> <<>>]
\* A file readFileSync throws on, with that message
UnreadableFile(message) == [exists |-> TRUE, readError |-> message, content |-> <<>>]

-----------------------------------------------------------------------------
(* readPrivateKeyFile *)

ReadErrorPrefix == "Error reading private key file: "

cborHexName == <<"c", "b", "o", "r", "H", "e", "x">>
typeName == <<"t", "y", "p", "e">>
PaymentSigningKeyShelley ==
  <<"P", "a", "y", "m", "e", "n", "t", "S", "i", "g", "n", "i", "n", "g", "K", "e", "y",
    "S", "h", "e", "l", "l", "e", "y", "_", "e", "d", "2", "5", "5", "1", "9">>

\* ExtractKey, were the cborHex member taken only from a key file of the
\* PaymentSigningKeyShelley_ed25519 type
ExtractKeyTyped(keyData, cborHex) ==
  IF GetProp(keyData, typeName) = JsString(PaymentSigningKeyShelley) /\ Truthy(cborHex)
    THEN Return(cborHex)
  ELSE IF keyData.t = "string" /\ Len(keyData.s) > 0 THEN Return(keyData)
  ELSE Throw(<<"Unable to extract CBOR hex from JSON structure">>)

\* ExtractKey, were a JSON string trimmed as the raw hex content is
ExtractKeyTrimmed(keyData, cborHex) ==
  IF Truthy(cborHex) THEN Return(cborHex)
  ELSE IF keyData.t = "string" /\ Len(keyData.s) > 0 THEN Return(JsString(Trim(keyData.s)))
  ELSE Throw(<<"Unable to extract CBOR hex from JSON structure">>)

\* The inner try block after JSON.parse gave keyData, with cborHex its
\* keyData.cborHex: the key formats in turn
ExtractKey(keyData, cborHex) ==
  IF Truthy(cborHex) THEN Return(cborHex)
  ELSE IF GetProp(keyData, typeName) = JsString(PaymentSigningKeyShelley)
          /\ Truthy(cborHex)
    THEN Return(cborHex)
  ELSE IF keyData.t = "string" /\ Len(keyData.s) > 0 THEN Return(keyData)
  ELSE Throw(<<"Unable to extract CBOR hex from JSON structure">>)

\* The inner try block on what JSON.parse gave.  A throw of JSON.parse (a
\* SyntaxError), of keyData.cborHex on null (a TypeError) and the block's own
\* throw all land in the same catch.
ExtractParsed(parsed) ==
  IF ~parsed.ok THEN Throw(<<"SyntaxError">>)
  ELSE IF parsed.v.t = "null" THEN Throw(<<"TypeError">>)
  ELSE ExtractKey(parsed.v, GetProp(parsed.v, cborHexName))

ExtractFromJson(fileContent) == ExtractParsed(JsonParse(fileContent))

\* catch (jsonError): the trimmed content, when it is a hex string
HexOrThrow(trimmedContent) ==
  IF isValidHex(trimmedContent) THEN Return(JsString(trimmedContent))
  ELSE Throw(<<"File content is neither valid JSON nor valid hex string">>)

RawHexFallback(fileContent) == HexOrThrow(Trim(fileContent))

\* The inner try and its catch
TryJsonThenHex(fileContent, json) ==
  IF json.ok THEN json ELSE RawHexFallback(fileContent)

\* ReadFile, were the content read before the path is looked for
ReadFileReadFirst(file, keyPath) ==
  IF ~file.exists
    THEN Throw(<<"ENOENT: no such file or directory, open '", keyPath, "'">>)
  ELSE IF file.readError # "" THEN Throw(<<file.readError>>)
  ELSE TryJsonThenHex(file.content, ExtractFromJson(file.content))

\* ReadFile, were a failed read taken for a file without content
ReadFileSwallowingReadError(file, keyPath) ==
  IF ~file.exists THEN Throw(<<"Private key file not found at path: ", keyPath>>)
  ELSE TryJsonThenHex(file.content, ExtractFromJson(file.content))

\* The outer try block on the file at keyPath
ReadFile(file, keyPath) ==
  IF ~file.exists THEN Throw(<<"Private key file not found at path: ", keyPath>>)
  ELSE IF file.readError # "" THEN Throw(<<file.readError>>)
  ELSE TryJsonThenHex(file.content, ExtractFromJson(file.content))

\* readPrivateKeyFile(keyPath) on the file system fs
readPrivateKeyFile(fs, keyPath) == Rethrow(ReadErrorPrefix, ReadFile(fs[keyPath], keyPath))

-----------------------------------------------------------------------------
(* cborHexToLucidPrivateKey, up to its await *)

EncodeErrorPrefix == "Error converting CBOR hex to Lucid private key: "
OnchainErrorPrefix == "Error converting onchain to offchain private key: "

\* "5820", the CBOR head of a 32-byte byte string
CborPrefix == <<"5", "8", "2", "0">>
\* cleanHex.slice(4)
CborPrefixLength == 4
\* rawHex.length !== 64
RawHexLength == 64

ed25519_sk == <<"e", "d", "2", "5", "5", "1", "9", "_", "s", "k">>

Decoded(bytes) == [ok |-> TRUE, bytes |-> bytes, error |-> <<>>]
NotDecoded(message) == [ok |-> FALSE, bytes |-> <<>>, error |-> message]

\* DecodeRawHex, were the length reported that of the tagged string
DecodeRawHexWholeLength(rawHex) ==
  IF Len(rawHex) # RawHexLength
    THEN NotDecoded(<<"Invalid private key length: expected 64 characters, got ",
                      ToString(Len(rawHex) + CborPrefixLength)>>)
    ELSE Decoded(BufferFromHex(rawHex))

\* const rawHex = cleanHex.slice(4): the length check, and Buffer.from
DecodeRawHex(rawHex) ==
  IF Len(rawHex) # RawHexLength
    THEN NotDecoded(<<"Invalid private key length: expected 64 characters, got ",
                      ToString(Len(rawHex))>>)
    ELSE Decoded(BufferFromHex(rawHex))

\* DecodeCleanHex, were the length checked before the prefix
DecodeCleanHexLengthFirst(cleanHex) ==
  IF Len(cleanHex) # CborPrefixLength + RawHexLength
    THEN NotDecoded(<<"Invalid private key length: expected 64 characters, got ",
                      ToString(Len(Slice(cleanHex, CborPrefixLength)))>>)
  ELSE IF ~StartsWith(cleanHex, CborPrefix)
    THEN NotDecoded(<<"CBOR hex must start with '5820' prefix for 32-byte private key">>)
  ELSE Decoded(BufferFromHex(Slice(cleanHex, CborPrefixLength)))

\* const cleanHex = cborHex.trim(): the prefix check
DecodeCleanHex(cleanHex) ==
  IF ~StartsWith(cleanHex, CborPrefix)
    THEN NotDecoded(<<"CBOR hex must start with '5820' prefix for 32-byte private key">>)
    ELSE DecodeRawHex(Slice(cleanHex, CborPrefixLength))

\* DecodeCborHex, were the input not trimmed
DecodeCborHexUntrimmed(cborHex) ==
  IF ~Truthy(cborHex) \/ cborHex.t # "string"
    THEN NotDecoded(<<"Invalid CBOR hex input">>)
    ELSE DecodeCleanHex(cborHex.s)

\* The input, prefix and length checks and Buffer.from: the key's bytes, or
\* the Error thrown
DecodeCborHex(cborHex) ==
  IF ~Truthy(cborHex) \/ cborHex.t # "string"
    THEN NotDecoded(<<"Invalid CBOR hex input">>)
    ELSE DecodeCleanHex(Trim(cborHex.s))

\* bech32.encode's LIMIT when none is given
EncodeLimit == 90

\* encoder.encode("ed25519_sk", words): encode throws a TypeError when
\* prefix.length + 7 + words.length > LIMIT
EncodeWords(words) ==
  IF Len(ed25519_sk) + 7 + Len(words) > EncodeLimit
    THEN Throw(<<"Exceeds length limit">>)
    ELSE Return(JsString(encode(ed25519_sk, words)))

\* const words = encoder.toWords(bytes); encoder.encode("ed25519_sk", words)
EncodeKey(bytes) == EncodeWords(toWords(bytes))

-----------------------------------------------------------------------------
(* The state *)

\* Calls in one run, each in a slot of its own
MaxCalls == 2
Slots == 1..MaxCalls

\* The converters made with new CardanoKeyConverter(config) by the caller
NumConverters == 2
Instances == 1..NumConverters
\* The converter CardanoUtils.cborHexToLucidPrivateKey makes for the call in
\* slot k
UtilsConverter(k) == NumConverters + k
Converters == 1..(NumConverters + MaxCalls)

\* private bech32Encoder: Bech32Encoder | null = null
Null == "null"
\* The bech32 object of the bech32 package
Bech32 == "bech32"
\* A bech32 object whose toWords throws, as the tests' mock has it, and one
\* whose encode throws
ThrowingToWords == "toWords throws"
ThrowingEncode == "encode throws"
Handles == {Bech32, ThrowingToWords, ThrowingEncode}

\* The bech32 package as the process finds it: whether import("bech32")
\* resolves, whether require("bech32") returns, the package's bech32 export
\* (Null when it has none) and the message require throws with
Installed(handle) ==
  [import |-> TRUE, require |-> TRUE, bech32 |-> handle, message |-> ""]
CjsOnly(handle) ==
  [import |-> FALSE, require |-> TRUE, bech32 |-> handle, message |-> ""]
NotInstalled(message) ==
  [import |-> FALSE, require |-> FALSE, bech32 |-> Null, message |-> message]

KeyPath == "/path/key.json"
MissingPath == "/missing.key"
Paths == {KeyPath, MissingPath}

VARIABLES
  files,          \* the file system: path -> file
  bech32Encoder,  \* converter -> this.bech32Encoder
  calls,          \* slot -> the call in it
  imports,        \* converter -> how many import("bech32") it has started
  writes,         \* converter -> how many times this.bech32Encoder was assigned
  reads,          \* path -> how many times readFileSync was called on it
  bech32Module    \* the bech32 package as the process finds it

vars == <<files, bech32Encoder, calls, imports, writes, reads, bech32Module>>

\* A slot no call has used.  encoder is what initBech32Encoder returned to the
\* call, thrown the message of what it threw.
NoCall ==
  [op |-> "none", conv |-> 0, input |-> JsUndefined, keyPath |-> "",
   pc |-> "idle", bytes |-> <<>>, outcome |-> Pending,
   encoder |-> Null, thrown |-> <<>>]

-----------------------------------------------------------------------------
(* The calls.  A call runs to its first await in one step; each later step  *)
(* is one resumption.  pc is where the call is suspended:                   *)
(*   "import"  in initBech32Encoder, at await import("bech32")              *)
(*   "await"   in cborHexToLucidPrivateKey, at await this.initBech32Encoder *)
(*             (which has returned the encoder, or thrown)                  *)
(*   "done"    settled, with its outcome                                    *)

\* The errors of a call of op as its caller sees them: onchainToOffchainPrivateKey
\* rethrows what readPrivateKeyFile and cborHexToLucidPrivateKey throw
Settle(op, r) ==
  IF op = "onchainToOffchainPrivateKey" THEN Rethrow(OnchainErrorPrefix, r) ELSE r

\* Suspend, were the converter to note that a load was started rather than
\* that an encoder was loaded
SuspendOnceStarted(k, op, c, cborHex, keyPath, d) ==
  /\ calls' = [calls EXCEPT ![k] =
        [op |-> op, conv |-> c, input |-> cborHex, keyPath |-> keyPath,
         pc |-> IF ~d.ok THEN "done"
                ELSE IF bech32Encoder[c] # Null \/ imports[c] > 0 THEN "await"
                ELSE "import",
         bytes |-> d.bytes,
         outcome |-> IF d.ok THEN Pending
                     ELSE Settle(op, Throw(<<EncodeErrorPrefix>> \o d.error)),
         encoder |-> IF d.ok THEN bech32Encoder[c] ELSE Null,
         thrown |-> <<>>]]
  /\ imports' = IF d.ok /\ bech32Encoder[c] = Null /\ imports[c] = 0
                  THEN [imports EXCEPT ![c] = @ + 1] ELSE imports
  /\ UNCHANGED <<files, bech32Encoder, writes, bech32Module>>

\* The call of op in slot k, in converter c's cborHexToLucidPrivateKey(cborHex),
\* once the checks and Buffer.from gave d: their Error rethrown, or
\* initBech32Encoder, which returns the memoized encoder or starts the import
Suspend(k, op, c, cborHex, keyPath, d) ==
  /\ calls' = [calls EXCEPT ![k] =
        [op |-> op, conv |-> c, input |-> cborHex, keyPath |-> keyPath,
         pc |-> IF ~d.ok THEN "done"
                ELSE IF bech32Encoder[c] # Null THEN "await" ELSE "import",
         bytes |-> d.bytes,
         outcome |-> IF d.ok THEN Pending
                     ELSE Settle(op, Throw(<<EncodeErrorPrefix>> \o d.error)),
         encoder |-> IF d.ok THEN bech32Encoder[c] ELSE Null,
         thrown |-> <<>>]]
  /\ imports' = IF d.ok /\ bech32Encoder[c] = Null
                  THEN [imports EXCEPT ![c] = @ + 1] ELSE imports
  /\ UNCHANGED <<files, bech32Encoder, writes, bech32Module>>

\* converter c's cborHexToLucidPrivateKey(cborHex) from its entry to its first
\* await, for the call of op in slot k
EnterEncoder(k, op, c, cborHex, keyPath) ==
  Suspend(k, op, c, cborHex, keyPath, DecodeCborHex(cborHex))

\* readPrivateKeyFile(keyPath) calls readFileSync when existsSync(keyPath)
\* finds the path
Counted(keyPath) ==
  IF files[keyPath].exists THEN [reads EXCEPT ![keyPath] = @ + 1] ELSE reads

\* The call of op in slot k once readPrivateKeyFile(keyPath) gave read: its
\* Error ends the call, its value goes to cborHexToLucidPrivateKey
AfterRead(k, op, c, keyPath, read) ==
  /\ reads' = Counted(keyPath)
  /\ IF read.ok
       THEN EnterEncoder(k, op, c, read.value, keyPath)
       ELSE /\ calls' = [calls EXCEPT ![k] =
                  [op |-> op, conv |-> c, input |-> JsUndefined, keyPath |-> keyPath,
                   pc |-> "done", bytes |-> <<>>, outcome |-> Settle(op, read),
                   encoder |-> Null, thrown |-> <<>>]]
            /\ UNCHANGED <<files, bech32Encoder, imports, writes, bech32Module>>

\* converter.cborHexToLucidPrivateKey(cborHex) on the caller's converter c
CallEncode(k, c, cborHex) ==
  /\ calls[k].pc = "idle"
  /\ EnterEncoder(k, "cborHexToLucidPrivateKey", c, cborHex, "")
  /\ UNCHANGED reads

\* CallUtilsEncode, were the input of the helper not trimmed
CallUtilsEncodeUntrimmed(k, cborHex) ==
  /\ calls[k].pc = "idle"
  /\ bech32Encoder[UtilsConverter(k)] = Null
  /\ Suspend(k, "CardanoUtils.cborHexToLucidPrivateKey", UtilsConverter(k), cborHex, "",
             DecodeCborHexUntrimmed(cborHex))
  /\ UNCHANGED reads

\* CardanoUtils.cborHexToLucidPrivateKey(cborHex): a new converter, then its
\* cborHexToLucidPrivateKey
CallUtilsEncode(k, cborHex) ==
  /\ calls[k].pc = "idle"
  /\ bech32Encoder[UtilsConverter(k)] = Null
  /\ EnterEncoder(k, "CardanoUtils.cborHexToLucidPrivateKey", UtilsConverter(k),
                  cborHex, "")
  /\ UNCHANGED reads

\* converter.readPrivateKeyFile(keyPath): synchronous
CallRead(k, c, keyPath) ==
  /\ calls[k].pc = "idle"
  /\ calls' = [calls EXCEPT ![k] =
        [op |-> "readPrivateKeyFile", conv |-> c, input |-> JsUndefined,
         keyPath |-> keyPath, pc |-> "done", bytes |-> <<>>,
         outcome |-> readPrivateKeyFile(files, keyPath),
         encoder |-> Null, thrown |-> <<>>]]
  /\ reads' = Counted(keyPath)
  /\ UNCHANGED <<files, bech32Encoder, imports, writes, bech32Module>>

\* CallOnchain, were the encoder given the file's content, not what
\* readPrivateKeyFile returned
CallOnchainRawContent(k, c, keyPath) ==
  /\ calls[k].pc = "idle"
  /\ AfterRead(k, "onchainToOffchainPrivateKey", c, keyPath,
               IF readPrivateKeyFile(files, keyPath).ok
                 THEN Return(JsString(files[keyPath].content))
                 ELSE readPrivateKeyFile(files, keyPath))

\* converter.onchainToOffchainPrivateKey(keyPath): readPrivateKeyFile, then
\* cborHexToLucidPrivateKey on what it returned
CallOnchain(k, c, keyPath) ==
  /\ calls[k].pc = "idle"
  /\ AfterRead(k, "onchainToOffchainPrivateKey", c, keyPath,
               readPrivateKeyFile(files, keyPath))

\* The example script's two statements: const cborHex =
\* converter.readPrivateKeyFile(keyPath), then
\* converter.cborHexToLucidPrivateKey(cborHex); what either throws ends it
CallReadThenEncode(k, c, keyPath) ==
  /\ calls[k].pc = "idle"
  /\ AfterRead(k, "readThenEncode", c, keyPath, readPrivateKeyFile(files, keyPath))

\* this.bech32Encoder = handle, from the import or from require; then
\* if (!this.bech32Encoder) throw, else return it
Loaded(k, c, handle) ==
  /\ bech32Encoder' = [bech32Encoder EXCEPT ![c] = handle]
  /\ writes' = [writes EXCEPT ![c] = @ + 1]
  /\ calls' = [calls EXCEPT
        ![k].pc = "await",
        ![k].encoder = handle,
        ![k].thrown = IF handle = Null
                        THEN <<"Failed to initialize bech32 encoder">> ELSE <<>>]

\* The import rejected and require threw: the Error of the inner catch
NotLoaded(k, message) ==
  /\ calls' = [calls EXCEPT
        ![k].pc = "await",
        ![k].thrown = <<"Failed to load bech32 encoder: ", message>>]
  /\ UNCHANGED <<bech32Encoder, writes>>

\* await import("bech32") settles, and initBech32Encoder runs to its end:
\* this.bech32Encoder = bech32Package.bech32 when the import resolved,
\* require("bech32").bech32 when it rejected
ImportResolved(k) ==
  /\ calls[k].pc = "import"
  /\ IF bech32Module.import \/ bech32Module.require
       THEN Loaded(k, calls[k].conv, bech32Module.bech32)
       ELSE NotLoaded(k, bech32Module.message)
  /\ UNCHANGED <<files, imports, reads, bech32Module>>

\* encoder.toWords(bytes) and encoder.encode("ed25519_sk", words) on the
\* encoder initBech32Encoder returned
EncodeWith(encoder, bytes) ==
  CASE encoder = Bech32 -> EncodeKey(bytes)
    [] encoder = ThrowingToWords -> Throw(<<"enc fail">>)
    [] encoder = ThrowingEncode -> Throw(<<"encode fail">>)
    [] OTHER -> Throw(<<"Cannot read properties of null (reading 'toWords')">>)

\* Resumed, were what initBech32Encoder threw dropped and the encoding done
\* with the encoder there is
ResumedIgnoringThrown(call) == EncodeWith(call.encoder, call.bytes)

\* What the try block gives from its await on: what initBech32Encoder threw,
\* or the encoding
Resumed(call) ==
  IF call.thrown # <<>> THEN Throw(call.thrown) ELSE EncodeWith(call.encoder, call.bytes)

\* await this.initBech32Encoder() resumes: toWords, encode and the return, or
\* the catch block's rethrow of what they or initBech32Encoder threw
ResumeEncode(k) ==
  /\ calls[k].pc = "await"
  /\ calls' = [calls EXCEPT
        ![k].pc = "done",
        ![k].outcome = Settle(calls[k].op, Rethrow(EncodeErrorPrefix, Resumed(calls[k])))]
  /\ UNCHANGED <<files, bech32Encoder, imports, writes, reads, bech32Module>>

\* The package is installed while the process runs
Install ==
  /\ ~bech32Module.import /\ ~bech32Module.require
  /\ bech32Module' = Installed(Bech32)
  /\ UNCHANGED <<files, bech32Encoder, calls, imports, writes, reads>>

-----------------------------------------------------------------------------
(* JSON.stringify, which writes the key files of the tests *)

\* A string's characters as JSON.stringify writes them between quotes
EscapedChar(c) ==
  CASE c = "\"" -> <<"\\", "\"">>
    [] c = "\\" -> <<"\\", "\\">>
    [] c = "\n" -> <<"\\", "n">>
    [] c = "\t" -> <<"\\", "t">>
    [] c = "\r" -> <<"\\", "r">>
    [] c = "\f" -> <<"\\", "f">>
    [] c = Backspace -> <<"\\", "b">>
    [] OTHER -> <<c>>

RECURSIVE Escaped(_, _, _)
\* The characters from..to of a string, as JSON.stringify writes them
Escaped(chars, from, to) ==
  IF from > to THEN <<>>
  ELSE IF from = to THEN EscapedChar(chars[from])
  ELSE Escaped(chars, from, (from + to) \div 2)
         \o Escaped(chars, ((from + to) \div 2) + 1, to)

Quoted(chars) == <<"\"">> \o Escaped(chars, 1, Len(chars)) \o <<"\"">>

RECURSIVE JsonStringify(_, _)
RECURSIVE StringifyFields(_, _, _, _)

\* JSON.stringify(v), with the white space gap between the tokens of an object
\* or array (none as JSON.stringify(v) writes it, some as a key file generated
\* by cardano-cli has it)
JsonStringify(v, gap) ==
  CASE v.t = "string" -> Quoted(v.s)
    [] v.t \in {"number", "boolean"} -> v.s
    [] v.t = "null" -> <<"n", "u", "l", "l">>
    [] v.t = "object" ->
         <<"{">> \o gap \o StringifyFields(v, gap, 1, <<>>) \o gap \o <<"}">>
    [] v.t = "array" ->
         <<"[">> \o gap \o StringifyFields(v, gap, 1, <<>>) \o gap \o <<"]">>

StringifyFields(v, gap, i, acc) ==
  IF i > Len(v.fields) THEN acc
  ELSE StringifyFields(v, gap, i + 1,
         acc \o (IF i > 1 THEN <<",">> \o gap ELSE <<>>)
             \o (IF v.t = "object" THEN Quoted(v.fields[i][1]) \o <<":">> \o gap
                 ELSE <<>>)
             \o JsonStringify(v.fields[i][2], gap))

-----------------------------------------------------------------------------
(* The inputs drawn *)

\* The longest of the short strings drawn in full
MaxShort == 4
\* The longest run of white space put before or after a key
MaxPad == 1
\* The longest of the short file contents drawn in full
MaxRaw == 4

SeqsUpTo(chars, n) == UNION {[1..m -> chars] : m \in 0..n}

\* "5820" and a payload
Tagged(payload) == CborPrefix \o payload

\* A payload of n characters: one character throughout, or that with one
\* character, near either end, replaced
Payloads(n) ==
  {Rep(c, n) : c \in {"a", "E"}}
    \cup {[Rep(c, n) EXCEPT ![p] = d] :
            c \in {"a", "E"}, p \in {1, 2, n - 1, n} \cap (1..n),
            d \in {"0", "z", "g", " ", "\n"}}

Padded(strings) ==
  {l \o b \o r : l \in SeqsUpTo({" "}, MaxPad), b \in strings,
                 r \in SeqsUpTo({"\n"}, MaxPad)}

\* Tagged strings whose payload has the right length, or not
TaggedStrings ==
  Padded({Tagged(p) : p \in UNION {Payloads(n) :
            n \in {8, RawHexLength - 1, RawHexLength, RawHexLength + 1}}})

ShortStrings == SeqsUpTo({"5", "8", "2", "0", "z", " "}, MaxShort)

NotStrings ==
  {JsUndefined, JsNull, JsNumber(<<"0">>), JsNumber(CborPrefix),
   JsBoolean(<<"t", "r", "u", "e">>), JsObject(<<>>), JsArray(<<>>)}

\* Strings as long as a tagged key that do not start with "5820"
Mistagged ==
  {Rep("a", CborPrefixLength + RawHexLength),
   <<"5", "8", "2", "1">> \o Rep("a", RawHexLength),
   <<"0">> \o Tagged(Rep("a", RawHexLength - 1))}

\* What cborHexToLucidPrivateKey is called with
EncoderInputs ==
  NotStrings \cup {JsString(x) : x \in ShortStrings \cup TaggedStrings \cup Mistagged}

KeyA == Tagged(Rep("a", RawHexLength))
KeyE == Tagged(Rep("e", RawHexLength))
\* A key that has no digit above 9, which is a JSON number too
KeyDigits == Tagged(Rep("7", RawHexLength))

fooName == <<"f", "o", "o">>

\* The values a key file's cborHex member is given
CborHexValues ==
  {JsString(x) : x \in {<<>>, KeyA, <<" ">> \o KeyA, <<"z", "z">>, <<"a", "b", "c", "d">>}}
    \cup {JsNumber(<<"0">>), JsNumber(<<"5">>), JsNull, JsBoolean(<<"t", "r", "u", "e">>),
          JsBoolean(<<"f", "a", "l", "s", "e">>), JsArray(<<>>), JsObject(<<>>)}

\* The members an object may have before and after its cborHex
TypeMembers ==
  {<<>>, <<<<typeName, JsString(PaymentSigningKeyShelley)>>>>,
   <<<<typeName, JsString(<<"O", "t", "h", "e", "r">>)>>>>}
OtherMembers == {<<>>, <<<<fooName, JsString(<<"b", "a", "r">>)>>>>}

JsonObjects ==
  {JsObject(t \o c \o o) :
     t \in TypeMembers, o \in OtherMembers,
     c \in {<<>>} \cup {<<<<cborHexName, v>>>> : v \in CborHexValues}}
    \cup {JsObject(<<<<cborHexName, JsString(<<>>)>>, <<cborHexName, JsString(KeyA)>>>>),
          JsObject(<<<<cborHexName, JsString(KeyA)>>, <<cborHexName, JsString(<<>>)>>>>)}

JsonScalars ==
  {JsString(x) : x \in {<<>>, KeyA, <<"z", "z">>, <<" ", "a", "b", " ">>,
                        <<"a", "\n", "\"", "\\">>}}
    \cup {JsNumber(x) : x \in {<<"0">>, <<"1", "2">>, <<"-", "1">>, <<"1", ".", "5">>,
                               <<"1", "E", "+", "2">>, KeyDigits}}
    \cup {JsNull, JsBoolean(<<"t", "r", "u", "e">>), JsBoolean(<<"f", "a", "l", "s", "e">>),
          JsArray(<<>>), JsArray(<<<<<<>>, JsString(<<"a", "b">>)>>>>),
          JsArray(<<<<<<>>, JsNumber(<<"1">>)>>, <<<<>>, JsNull>>>>)}

\* Key files as JSON.stringify and as cardano-cli write them
JsonTexts ==
  {JsonStringify(v, gap) : v \in JsonObjects \cup JsonScalars, gap \in {<<>>, <<"\n", " ">>}}

\* Key files that hold the hex itself, or text that is neither
RawTexts ==
  Padded({KeyA, KeyDigits, Tagged(Rep("E", RawHexLength)),
          Tagged(Rep("a", RawHexLength - 1)), <<"z", "z", "z", "z">>,
          <<"{", "\"", "c", "b", "o", "r", "H", "e", "x", "\"", ":">>})
    \cup SeqsUpTo({"0", "1", "e", "z", " ", "\""}, MaxRaw)

\* The files a path may hold
ReaderFiles ==
  {File(text) : text \in JsonTexts \cup RawTexts}
    \cup {MissingFile, UnreadableFile("fail"), UnreadableFile("EACCES: permission denied")}

\* The few inputs and files of the runs that interleave calls
SmallInputs == {JsString(<<" ">> \o KeyA), JsString(<<"a", "b", "c", "d">>)}
SmallFiles ==
  {File(JsonStringify(JsObject(<<<<cborHexName, JsString(KeyE)>>>>), <<>>)),
   File(JsonStringify(JsObject(<<<<fooName, JsString(<<"b", "a", "r">>)>>>>), <<>>))}

-----------------------------------------------------------------------------
(* The specifications *)

FileSystem(f) == [p \in Paths |-> IF p = KeyPath THEN f ELSE MissingFile]

\* After construction: no call made, no encoder loaded
Fresh ==
  /\ bech32Encoder = [c \in Converters |-> Null]
  /\ calls = [k \in Slots |-> NoCall]
  /\ imports = [c \in Converters |-> 0]
  /\ writes = [c \in Converters |-> 0]
  /\ reads = [p \in Paths |-> 0]

\* The bech32 package is installed, as package.json has it
Working == bech32Module = Installed(Bech32)

Init == Fresh /\ Working /\ \E f \in SmallFiles : files = FileSystem(f)

\* Calls take the slots in order
NextSlot(k) == IF k = 1 THEN TRUE ELSE calls[k - 1].pc # "idle"

\* Every operation, on few inputs, the calls interleaved at their awaits
Next ==
  \E k \in Slots :
    \/ \E c \in Instances, v \in SmallInputs : NextSlot(k) /\ CallEncode(k, c, v)
    \/ \E v \in SmallInputs : NextSlot(k) /\ CallUtilsEncode(k, v)
    \/ \E p \in Paths : NextSlot(k) /\ CallRead(k, 1, p)
    \/ \E c \in Instances : NextSlot(k) /\ CallOnchain(k, c, KeyPath)
    \/ \E c \in Instances : NextSlot(k) /\ CallReadThenEncode(k, c, KeyPath)
    \/ ImportResolved(k)
    \/ ResumeEncode(k)

Spec == Init /\ [][Next]_vars

\* One call of cborHexToLucidPrivateKey, on a converter that has loaded its
\* encoder in an earlier call or has not
InitEncoder ==
  /\ files = FileSystem(MissingFile)
  /\ calls = [k \in Slots |-> NoCall]
  /\ reads = [p \in Paths |-> 0]
  /\ Working
  /\ \E n \in {0, 1} :
       /\ bech32Encoder = [c \in Converters |-> IF c = 1 /\ n = 1 THEN Bech32 ELSE Null]
       /\ imports = [c \in Converters |-> IF c = 1 THEN n ELSE 0]
       /\ writes = [c \in Converters |-> IF c = 1 THEN n ELSE 0]

NextEncoder ==
  \/ \E v \in EncoderInputs : CallEncode(1, 1, v)
  \/ ImportResolved(1)
  \/ ResumeEncode(1)

SpecEncoder == InitEncoder /\ [][NextEncoder]_vars

\* The reader and the orchestration on every file drawn: a read, or a
\* conversion and then the script's read and encode of the same path
InitReader == Fresh /\ Working /\ \E f \in ReaderFiles : files = FileSystem(f)

NextReader ==
  \/ \E p \in Paths : CallRead(1, 1, p)
  \/ \E p \in Paths : CallOnchain(1, 1, p)
  \/ \E p \in Paths :
       /\ calls[1].op = "onchainToOffchainPrivateKey"
       /\ calls[1].pc = "done"
       /\ calls[1].keyPath = p
       /\ CallReadThenEncode(2, 1, p)
  \/ \E k \in {1, 2} : ImportResolved(k)
  \/ \E k \in {1, 2} : ResumeEncode(k)

SpecReader == InitReader /\ [][NextReader]_vars

\* The encoder with the bech32 package as it may be found: installed, found
\* by require only, not installed (and installed later), its bech32 export
\* missing, or its functions throwing
LoadMessages == {"Cannot find module 'bech32'"}
Modules ==
  {Installed(h) : h \in Handles \cup {Null}}
    \cup {CjsOnly(h) : h \in Handles \cup {Null}}
    \cup {NotInstalled(m) : m \in LoadMessages}

\* A key, and an input for each of the three checks before the await
FaultInputs ==
  SmallInputs \cup {JsUndefined, JsString(CborPrefix \o <<"a", "b">>)}

InitFaults ==
  /\ Fresh
  /\ files = FileSystem(File(KeyE))
  /\ bech32Module \in Modules

NextFaults ==
  \/ \E k \in Slots, v \in FaultInputs : NextSlot(k) /\ CallEncode(k, 1, v)
  \/ \E k \in Slots, v \in FaultInputs : NextSlot(k) /\ CallUtilsEncode(k, v)
  \/ \E k \in Slots : NextSlot(k) /\ CallOnchain(k, 1, KeyPath)
  \/ \E k \in Slots : ImportResolved(k)
  \/ \E k \in Slots : ResumeEncode(k)
  \/ Install

SpecFaults == InitFaults /\ [][NextFaults]_vars

-----------------------------------------------------------------------------
(* The properties of the encoder, the reader and the orchestration *)

\* The Errors by the message the code gives them
InvalidInputError == <<EncodeErrorPrefix, "Invalid CBOR hex input">>
InvalidPrefixError ==
  <<EncodeErrorPrefix, "CBOR hex must start with '5820' prefix for 32-byte private key">>
InvalidLengthError(got) ==
  <<EncodeErrorPrefix, "Invalid private key length: expected 64 characters, got ",
    ToString(got)>>
UnrecognizedFormatErrors ==
  {<<ReadErrorPrefix, "Unable to extract CBOR hex from JSON structure">>,
   <<ReadErrorPrefix, "File content is neither valid JSON nor valid hex string">>}

\* Every character of s is a hex digit
AllHex(s) == \A i \in 1..Len(s) : s[i] \in HexDigits

\* The bytes a string of hex digits writes, two digits a byte
HexDecode(h) ==
  [i \in 1..(Len(h) \div 2) |-> 16 * HexVal(h[2 * i - 1]) + HexVal(h[2 * i])]

\* The settled calls of cborHexToLucidPrivateKey on a string, and of
\* readPrivateKeyFile on a file that exists and is read
EncodedStrings ==
  {k \in Slots : /\ calls[k].op = "cborHexToLucidPrivateKey"
                 /\ calls[k].pc = "done"
                 /\ calls[k].input.t = "string"}
ReadFiles ==
  {k \in Slots : /\ calls[k].op = "readPrivateKeyFile"
                 /\ calls[k].pc = "done"
                 /\ files[calls[k].keyPath].exists
                 /\ files[calls[k].keyPath].readError = ""}

\* The trimmed input of the call in slot k, what follows its tag, and the
\* content of the file it read
Cleaned(k) == Trim(calls[k].input.s)
Payload(k) == SubSeq(Cleaned(k), CborPrefixLength + 1, Len(Cleaned(k)))
Content(k) == files[calls[k].keyPath].content

\* "5820" and then 64 characters
TaggedKey(t) == Len(t) = CborPrefixLength + RawHexLength /\ StartsWith(t, CborPrefix)

\* C1: an input whose trimmed value is "5820" and 64 hex digits, of either
\* case, is encoded: the call returns encode("ed25519_sk", toWords(B)) for B
\* the 32 bytes the 64 digits write, and B is what toWords was given.
C1_EncodesTheKeyBytes ==
  \A k \in EncodedStrings :
    (TaggedKey(Cleaned(k)) /\ AllHex(Payload(k))) =>
      /\ calls[k].outcome.ok
      /\ calls[k].bytes = HexDecode(Payload(k))
      /\ Len(calls[k].bytes) = 32
      /\ calls[k].outcome.value = JsString(encode(ed25519_sk, toWords(HexDecode(Payload(k)))))

\* A key in upper case with white space around it was encoded
C1_Witness ==
  \E k \in EncodedStrings :
    /\ TaggedKey(Cleaned(k)) /\ AllHex(Payload(k))
    /\ Cleaned(k) # calls[k].input.s
    /\ "E" \in {Payload(k)[i] : i \in 1..Len(Payload(k))}
    /\ calls[k].outcome.ok
    /\ StartsWith(calls[k].outcome.value.s, ed25519_sk \o <<"1">>)

\* C2: an input whose trimmed value is "5820" and 64 characters, one of them
\* no hex digit, fails; and no call returns a key for a payload that did not
\* decode to exactly 32 bytes.
C2_RejectsNonHexPayload ==
  \A k \in EncodedStrings :
    /\ (TaggedKey(Cleaned(k)) /\ ~AllHex(Payload(k))) =>
         (~calls[k].outcome.ok /\ calls[k].outcome.error[1] = EncodeErrorPrefix)
    /\ calls[k].outcome.ok => Len(calls[k].bytes) = 32

\* C3: a file whose content is JSON, but neither an object with a cborHex
\* member nor a non-empty string, is refused with the format Error, and its
\* trimmed text is never returned through the raw hex fallback.
C3_RefusesUnrecognizedJson ==
  \A k \in ReadFiles :
    (/\ JsonParse(Content(k)).ok
     /\ ~(/\ JsonParse(Content(k)).v.t = "object"
          /\ \E i \in 1..Len(JsonParse(Content(k)).v.fields) :
               JsonParse(Content(k)).v.fields[i][1] = cborHexName)
     /\ ~(JsonParse(Content(k)).v.t = "string" /\ JsonParse(Content(k)).v.s # <<>>)) =>
      /\ ~calls[k].outcome.ok
      /\ calls[k].outcome.error \in UnrecognizedFormatErrors

\* C4 as the specification words it: a file whose content is a JSON object
\* with a cborHex member gives that member's value unchanged, whatever its
\* type member is.
C4_AnyCborHexMember ==
  \A k \in ReadFiles :
    (/\ JsonParse(Content(k)).ok
     /\ JsonParse(Content(k)).v.t = "object"
     /\ \E i \in 1..Len(JsonParse(Content(k)).v.fields) :
          JsonParse(Content(k)).v.fields[i][1] = cborHexName) =>
      /\ calls[k].outcome.ok
      /\ calls[k].outcome.value = GetProp(JsonParse(Content(k)).v, cborHexName)

\* C4: a file whose content is a JSON object gives its cborHex member
\* unchanged when that member is truthy (a non-empty string, a number other
\* than 0, true, an object, an array), whatever its type member is and
\* whether it has one; when the member is falsy (the empty string, 0, false,
\* null) the read fails with the format Error.
C4_TruthyCborHexMember ==
  \A k \in ReadFiles :
    (/\ JsonParse(Content(k)).ok
     /\ JsonParse(Content(k)).v.t = "object"
     /\ \E i \in 1..Len(JsonParse(Content(k)).v.fields) :
          JsonParse(Content(k)).v.fields[i][1] = cborHexName) =>
      IF Truthy(GetProp(JsonParse(Content(k)).v, cborHexName))
        THEN /\ calls[k].outcome.ok
             /\ calls[k].outcome.value = GetProp(JsonParse(Content(k)).v, cborHexName)
        ELSE /\ ~calls[k].outcome.ok
             /\ calls[k].outcome.error \in UnrecognizedFormatErrors

\* A key file of another type gave its cborHex member
C4_Witness ==
  \E k \in ReadFiles :
    /\ Content(k) =
         JsonStringify(JsObject(<<<<typeName, JsString(<<"O", "t", "h", "e", "r">>)>>,
                                  <<cborHexName, JsString(KeyA)>>>>), <<>>)
    /\ calls[k].outcome = Return(JsString(KeyA))

\* C5: a file whose content is not JSON gives its trimmed content when that is
\* not empty, of even length and of hex digits only, and the format Error in
\* every other case.
C5_RawHexFallback ==
  \A k \in ReadFiles :
    ~JsonParse(Content(k)).ok =>
      IF /\ Trim(Content(k)) # <<>>
         /\ Len(Trim(Content(k))) % 2 = 0
         /\ AllHex(Trim(Content(k)))
        THEN calls[k].outcome = Return(JsString(Trim(Content(k))))
        ELSE /\ ~calls[k].outcome.ok
             /\ calls[k].outcome.error \in UnrecognizedFormatErrors

\* A raw hex file with white space around the key gave the key
C5_Witness ==
  \E k \in ReadFiles :
    /\ ~JsonParse(Content(k)).ok
    /\ Content(k) # Trim(Content(k))
    /\ calls[k].outcome = Return(JsString(KeyA))

\* C6: a file whose content is a JSON string that is not empty gives that
\* string's characters, not trimmed and not checked for hex.
C6_JsonStringAsIs ==
  \A k \in ReadFiles :
    (/\ JsonParse(Content(k)).ok
     /\ JsonParse(Content(k)).v.t = "string"
     /\ JsonParse(Content(k)).v.s # <<>>) =>
      calls[k].outcome = Return(JsString(JsonParse(Content(k)).v.s))

\* A JSON string with spaces around letters that are no hex gave itself
C6_Witness ==
  \E k \in ReadFiles :
    /\ Content(k) = <<"\"", " ", "a", "b", " ", "\"">>
    /\ calls[k].outcome = Return(JsString(<<" ", "a", "b", " ">>))

\* C7: on a file readPrivateKeyFile accepts, onchainToOffchainPrivateKey
\* succeeds exactly when cborHexToLucidPrivateKey on what readPrivateKeyFile
\* returned does, and returns the same string.
C7_OrchestrationComposes ==
  \A j \in Slots, k \in Slots :
    (/\ calls[j].op = "onchainToOffchainPrivateKey" /\ calls[j].pc = "done"
     /\ calls[k].op = "readThenEncode" /\ calls[k].pc = "done"
     /\ calls[j].keyPath = calls[k].keyPath
     /\ readPrivateKeyFile(files, calls[j].keyPath).ok) =>
      /\ calls[j].outcome.ok = calls[k].outcome.ok
      /\ calls[j].outcome.value = calls[k].outcome.value
      /\ calls[k].input = readPrivateKeyFile(files, calls[j].keyPath).value

\* Both ways gave the key of a JSON key file
C7_Witness ==
  \E j \in Slots, k \in Slots :
    /\ calls[j].op = "onchainToOffchainPrivateKey" /\ calls[j].pc = "done"
    /\ calls[k].op = "readThenEncode" /\ calls[k].pc = "done"
    /\ calls[j].keyPath = calls[k].keyPath
    /\ JsonParse(files[calls[j].keyPath].content).ok
    /\ calls[j].outcome.ok
    /\ calls[j].outcome = calls[k].outcome

\* The settled calls of cborHexToLucidPrivateKey, on a converter or through
\* CardanoUtils, with a valid key
KeyEncodings ==
  {k \in Slots : /\ calls[k].op \in {"cborHexToLucidPrivateKey",
                                      "CardanoUtils.cborHexToLucidPrivateKey"}
                 /\ calls[k].pc = "done"
                 /\ calls[k].input.t = "string"
                 /\ TaggedKey(Cleaned(k)) /\ AllHex(Payload(k))}

\* C8: any two calls of cborHexToLucidPrivateKey with the same valid tagged
\* hex, on one converter before and after its encoder was loaded, on two
\* converters or through CardanoUtils, return the same string, and it starts
\* with "ed25519_sk".
C8_EncodingIsDeterministic ==
  \A j \in KeyEncodings, k \in KeyEncodings :
    calls[j].input = calls[k].input =>
      /\ calls[j].outcome.ok /\ calls[k].outcome.ok
      /\ calls[j].outcome.value = calls[k].outcome.value
      /\ calls[j].outcome.value.t = "string"
      /\ StartsWith(calls[j].outcome.value.s, ed25519_sk)

\* A converter encoded a key twice, loading its encoder once
C8_Witness ==
  \E j \in KeyEncodings, k \in KeyEncodings :
    /\ j # k
    /\ calls[j].input = calls[k].input
    /\ calls[j].conv = calls[k].conv
    /\ imports[calls[j].conv] = 1
    /\ calls[j].outcome.ok

\* C9: an input whose trimmed value starts with "5820" and has L # 64
\* characters after it fails with the length Error, which names 64 and L, the
\* trimmed length less 4, whatever the characters are.
C9_ReportsTheLength ==
  \A k \in EncodedStrings :
    (StartsWith(Cleaned(k), CborPrefix) /\ Len(Cleaned(k)) - 4 # 64) =>
      /\ ~calls[k].outcome.ok
      /\ calls[k].outcome.error = InvalidLengthError(Len(Cleaned(k)) - 4)

\* A payload of 63 characters, one of them no hex digit, was refused for its
\* length
C9_Witness ==
  \E k \in EncodedStrings :
    /\ StartsWith(Cleaned(k), CborPrefix)
    /\ Len(Cleaned(k)) - 4 = 63
    /\ ~AllHex(Payload(k))
    /\ calls[k].outcome.error = InvalidLengthError(63)

\* C10: the checks run in the order input, prefix, length.  A call with an
\* input that is absent, no string or empty settles at once with the input
\* Error, and one with any other input whose trimmed value does not start
\* with "5820" with the prefix Error, whatever its length; neither is ever
\* suspended in the encoding step, and neither decoded any byte.
C10_InputThenPrefix ==
  \A k \in Slots :
    (calls[k].op = "cborHexToLucidPrivateKey" /\ calls[k].pc # "idle") =>
      IF calls[k].input.t # "string" \/ calls[k].input.s = <<>>
        THEN /\ calls[k].pc = "done"
             /\ calls[k].outcome = Throw(InvalidInputError)
             /\ calls[k].bytes = <<>>
      ELSE ~StartsWith(Trim(calls[k].input.s), CborPrefix) =>
             /\ calls[k].pc = "done"
             /\ calls[k].outcome = Throw(InvalidPrefixError)
             /\ calls[k].bytes = <<>>

\* A string as long as a tagged key, with another tag, was refused for its
\* prefix
C10_Witness ==
  \E k \in EncodedStrings :
    /\ Len(Cleaned(k)) = CborPrefixLength + RawHexLength
    /\ ~StartsWith(Cleaned(k), CborPrefix)
    /\ calls[k].outcome = Throw(InvalidPrefixError)


\* The calls made with a path, and the text of the not-found Error
PathCalls == {k \in Slots : calls[k].pc # "idle" /\ calls[k].keyPath \in Paths}
NotFoundText == "Private key file not found at path: "

\* C11: on a path that does not exist, readPrivateKeyFile throws the
\* not-found Error with the path as given and readFileSync is never called
\* on the path; onchainToOffchainPrivateKey on it throws with the same text
\* and path in its message and ends without entering the encoder.
C11_MissingPathNotRead ==
  /\ \A p \in Paths : ~files[p].exists => reads[p] = 0
  /\ \A k \in PathCalls :
       ~files[calls[k].keyPath].exists =>
         /\ calls[k].pc = "done"
         /\ ~calls[k].outcome.ok
         /\ calls[k].outcome.value = JsUndefined
         /\ calls[k].op \in {"readPrivateKeyFile", "readThenEncode"} =>
              calls[k].outcome.error =
                <<ReadErrorPrefix, NotFoundText, calls[k].keyPath>>
         /\ calls[k].op = "onchainToOffchainPrivateKey" =>
              /\ calls[k].outcome.error =
                   <<OnchainErrorPrefix, ReadErrorPrefix, NotFoundText, calls[k].keyPath>>
              /\ calls[k].input = JsUndefined
              /\ calls[k].encoder = Null
              /\ imports[calls[k].conv] = 0

\* onchainToOffchainPrivateKey was called on a path where there is no file,
\* and then readPrivateKeyFile
C11_Witness ==
  \E j \in PathCalls, k \in PathCalls :
    /\ ~files[calls[j].keyPath].exists /\ ~files[calls[k].keyPath].exists
    /\ calls[j].op = "onchainToOffchainPrivateKey" /\ ~calls[j].outcome.ok
    /\ calls[k].op = "readThenEncode" /\ ~calls[k].outcome.ok


\* The calls of readPrivateKeyFile, alone or as the script makes it before
\* encoding, on a file that exists and readFileSync throws on
UnreadableCalls ==
  {k \in PathCalls : /\ calls[k].op \in {"readPrivateKeyFile", "readThenEncode"}
                     /\ files[calls[k].keyPath].exists
                     /\ files[calls[k].keyPath].readError # ""}

\* C12: on a path that exists and whose read throws, readPrivateKeyFile
\* throws an Error whose message is its own prefix and then the message of
\* what readFileSync threw; it returns no value, and its Error is never one
\* of the format Errors.
C12_ReadFailureWrapped ==
  \A k \in UnreadableCalls :
    /\ calls[k].pc = "done"
    /\ ~calls[k].outcome.ok
    /\ calls[k].outcome.value = JsUndefined
    /\ calls[k].outcome.error = <<ReadErrorPrefix, files[calls[k].keyPath].readError>>
    /\ \A i \in 1..Len(calls[k].outcome.error) :
         calls[k].outcome.error[i] \notin
           {"File content is neither valid JSON nor valid hex string",
            "Unable to extract CBOR hex from JSON structure"}
    /\ reads[calls[k].keyPath] > 0

\* The read of the tests: readFileSync throws Error("fail")
C12_Witness ==
  \E k \in UnreadableCalls :
    /\ calls[k].op = "readPrivateKeyFile"
    /\ calls[k].outcome.error = <<ReadErrorPrefix, "fail">>


\* The failed calls of onchainToOffchainPrivateKey, the part of a message
\* after the two prefixes, and the JSON values that are no key shape: no
\* object with a cborHex member, no non-empty string
OnchainFailures ==
  {k \in Slots : /\ calls[k].op = "onchainToOffchainPrivateKey"
                 /\ calls[k].pc = "done"
                 /\ ~calls[k].outcome.ok}
Reason(k) == SubSeq(calls[k].outcome.error, 3, Len(calls[k].outcome.error))
NoKeyShape(v) ==
  /\ ~(v.t = "object" /\ \E i \in 1..Len(v.fields) : v.fields[i][1] = cborHexName)
  /\ ~(v.t = "string" /\ v.s # <<>>)

\* C13: the message of every failure of onchainToOffchainPrivateKey is its
\* own prefix, then the prefix of the stage that failed, then the reason that
\* stage failed for: the not-found text, the message of the failed read, and
\* for a file whose JSON is no key shape the reader's "Unable to extract CBOR
\* hex from JSON structure".
C13_ReasonRecoverable ==
  \A k \in OnchainFailures :
    /\ Len(calls[k].outcome.error) >= 3
    /\ calls[k].outcome.error[1] = OnchainErrorPrefix
    /\ calls[k].outcome.error[2] \in {ReadErrorPrefix, EncodeErrorPrefix}
    /\ \A i \in 1..Len(Reason(k)) :
         Reason(k)[i] \notin {OnchainErrorPrefix, ReadErrorPrefix, EncodeErrorPrefix}
    /\ ~files[calls[k].keyPath].exists => Reason(k) = <<NotFoundText, calls[k].keyPath>>
    /\ (files[calls[k].keyPath].exists /\ files[calls[k].keyPath].readError # "") =>
         Reason(k) = <<files[calls[k].keyPath].readError>>
    /\ (/\ files[calls[k].keyPath].exists
        /\ files[calls[k].keyPath].readError = ""
        /\ JsonParse(Content(k)).ok
        /\ NoKeyShape(JsonParse(Content(k)).v)) =>
         /\ calls[k].outcome.error[2] = ReadErrorPrefix
         /\ Reason(k) = <<"Unable to extract CBOR hex from JSON structure">>


\* The settled calls of cborHexToLucidPrivateKey, on a converter or through
\* CardanoUtils, on "5820" and 64 hex digits
ValidEncodings ==
  {k \in Slots : /\ calls[k].op \in {"cborHexToLucidPrivateKey",
                                      "CardanoUtils.cborHexToLucidPrivateKey"}
                 /\ calls[k].pc = "done"
                 /\ calls[k].input.t = "string"
                 /\ TaggedKey(Cleaned(k))
                 /\ AllHex(Payload(k))}
LoadFailedText == "Failed to load bech32 encoder: "
NoEncoderText == "Failed to initialize bech32 encoder"

\* C14: a call on "5820" and 64 hex digits whose encoding step throws fails
\* with the encoder's prefix and then the thrown message, and has no value:
\* the message of require's Error under "Failed to load bech32 encoder: " when
\* neither import nor require finds the package, "Failed to initialize bech32
\* encoder" when the package has no bech32 export, and the message toWords or
\* encode threw with.
C14_EncodingFailureWrapped ==
  \A k \in ValidEncodings :
    /\ ~calls[k].outcome.ok =>
         /\ calls[k].outcome.value = JsUndefined
         /\ Len(calls[k].outcome.error) >= 2
         /\ calls[k].outcome.error[1] = EncodeErrorPrefix
    /\ (~bech32Module.import /\ ~bech32Module.require) =>
         calls[k].outcome =
           [ok |-> FALSE, value |-> JsUndefined,
            error |-> <<EncodeErrorPrefix, LoadFailedText, bech32Module.message>>]
    /\ ((bech32Module.import \/ bech32Module.require) /\ bech32Module.bech32 = Null) =>
         calls[k].outcome =
           [ok |-> FALSE, value |-> JsUndefined,
            error |-> <<EncodeErrorPrefix, NoEncoderText>>]
    /\ bech32Module.bech32 = ThrowingToWords =>
         calls[k].outcome =
           [ok |-> FALSE, value |-> JsUndefined, error |-> <<EncodeErrorPrefix, "enc fail">>]
    /\ bech32Module.bech32 = ThrowingEncode =>
         calls[k].outcome =
           [ok |-> FALSE, value |-> JsUndefined, error |-> <<EncodeErrorPrefix, "encode fail">>]

\* A call on a valid key failed because the package could not be loaded
C14_Witness ==
  \E k \in ValidEncodings :
    /\ ~calls[k].outcome.ok
    /\ calls[k].outcome.error[2] = LoadFailedText


\* The sum of a count over the converters 1..n
RECURSIVE TotalTo(_, _)
TotalTo(count, n) == IF n = 0 THEN 0 ELSE count[n] + TotalTo(count, n - 1)
Total(count) == TotalTo(count, NumConverters + MaxCalls)

\* C15: however the encode calls of a process interleave, on converters and
\* through CardanoUtils, import("bech32") is started at most once and
\* this.bech32Encoder is assigned at most once, on each converter and in the
\* process as a whole; and a call that starts when an encoder has been
\* loaded starts no import.
C15_LoadedOnce ==
  /\ [](/\ \A c \in Converters : imports[c] <= 1 /\ writes[c] <= 1
        /\ Total(imports) <= 1
        /\ Total(writes) <= 1)
  /\ [][\A k \in Slots :
          (/\ calls[k].pc = "idle"
           /\ calls'[k].pc # "idle"
           /\ \E c \in Converters : bech32Encoder[c] # Null) =>
            imports' = imports]_vars


\* An input that passes the input, prefix and length checks
PassesChecks(v) == v.t = "string" /\ TaggedKey(Trim(v.s))

\* C16: when initBech32Encoder throws, the call rejects and
\* this.bech32Encoder stays unset; no call encodes without an encoder; a call
\* that passes the checks on a converter whose encoder is unset starts the
\* import again, and an import that finds the package gives the call its
\* encoder, with which a real encoder's call succeeds; a call the input,
\* prefix or length check rejects starts no import and leaves every
\* converter's encoder as it was.
C16_FailedLoadNotMemoized ==
  /\ [](\A k \in Slots :
          /\ (calls[k].pc = "done" /\ calls[k].thrown # <<>>) => ~calls[k].outcome.ok
          /\ (calls[k].pc = "await" /\ calls[k].thrown = <<>>) => calls[k].encoder # Null
          /\ (calls[k].pc = "done" /\ calls[k].outcome.ok) => calls[k].encoder = Bech32)
  /\ [][\A k \in Slots :
          /\ (calls[k].pc = "import" /\ calls'[k].pc = "await") =>
               IF bech32Module.import \/ bech32Module.require
                 THEN /\ bech32Encoder'[calls[k].conv] = bech32Module.bech32
                      /\ calls'[k].encoder = bech32Module.bech32
                      /\ (calls'[k].thrown # <<>>) = (bech32Module.bech32 = Null)
                 ELSE /\ calls'[k].thrown # <<>>
                      /\ bech32Encoder'[calls[k].conv] = bech32Encoder[calls[k].conv]
          /\ (calls'[k].thrown # <<>> /\ calls[k].thrown = <<>>) =>
               bech32Encoder'[calls[k].conv] = Null
          /\ (calls[k].pc = "await" /\ calls'[k].pc = "done"
                /\ calls[k].thrown = <<>> /\ calls[k].encoder = Bech32) =>
               calls'[k].outcome.ok
          /\ (calls[k].pc = "idle" /\ calls'[k].pc # "idle") =>
               IF PassesChecks(calls'[k].input)
                 THEN bech32Encoder[calls'[k].conv] = Null =>
                        /\ calls'[k].pc = "import"
                        /\ imports'[calls'[k].conv] = imports[calls'[k].conv] + 1
                 ELSE /\ calls'[k].pc = "done"
                      /\ imports' = imports
                      /\ bech32Encoder' = bech32Encoder]_vars

\* On one converter a call failed because the package could not be loaded,
\* and a later call loaded the package and returned the key
C16_Witness ==
  \E j \in Slots, k \in Slots :
    /\ calls[j].conv = calls[k].conv
    /\ calls[j].pc = "done"
    /\ calls[j].thrown = <<LoadFailedText, "Cannot find module 'bech32'">>
    /\ ~calls[j].outcome.ok
    /\ calls[k].pc = "done" /\ calls[k].outcome.ok
    /\ bech32Encoder[calls[k].conv] = Bech32
    /\ imports[calls[k].conv] = 2

=============================================================================
